---- MODULE Spec2Model ----
(***************************************************************************)
(* Token-based session authentication of golf-improver-server:             *)
(* AuthService (register / login / refreshToken / logout) over the users   *)
(* and refresh_tokens tables, and TokenCleanupService.                     *)
(*                                                                         *)
(* Every request is a process.  A process takes one step per store access  *)
(* of its handler; the steps of different requests interleave at the       *)
(* handler's awaits.  Time is the wall clock in seconds (the unit of JWT   *)
(* exp/iat claims and of the integer timestamp columns).                   *)
(***************************************************************************)
EXTENDS Integers, FiniteSets, Sequences, TLC

\* ---------------------------------------------------------------- bounds
NumProcs == 2
MaxTime == 3
MaxRows == 3

\* ------------------------------------------------------ program constants
\* Lifetimes, in clock units of the model (the code: 3600 s and 30 days).
AccessTtl == 1
RefreshTtl == 2
\* revoked_at IS NULL
NULL == -1

Procs == 1..NumProcs
Emails == {"a@x.com", "b@x.com"}
\* RegisterUserSchema admits only the first; LoginUserSchema admits both.
StrongPassword == "Aa1!aaaa"
Passwords == {StrongPassword, "wrongpassword"}
\* login's dummyPassword, which a client may send as well.
dummyPassword == "dummy-password-for-timing-protection"

VARIABLES
  now,            \* the clock, Date.now() in seconds
  env,            \* process environment: is JWT_SECRET set; is randomBytes collision-free
  users,          \* table users
  refreshTokens,  \* table refresh_tokens
  nextId,         \* rows ever inserted into refresh_tokens (ids and nonces are fresh)
  proc,           \* per request in flight: position in its handler, locals
  last,           \* the call that returned in the step just taken, with its input and
                  \* what it returned (Idle when the step returned nothing)
  issued,         \* history: refresh tokens handed to callers
  loggedOut,      \* history: tokens for which a logout call has returned success
  lineage         \* history: each rotation: the token presented, the row found for
                  \* it, the rows its revoke updated, the successor row and token

vars == <<now, env, users, refreshTokens, nextId, proc, last, issued, loggedOut, lineage>>

\* ------------------------------------------------------------------ tokens
NoToken == [sig |-> FALSE, userId |-> 0, payload |-> 0, type |-> "none", exp |-> 0, iat |-> 0]

\* The client string "invalid-token": not a JWT at all.
Garbage == [sig |-> FALSE, userId |-> 0, payload |-> 0, type |-> "garbage", exp |-> 0, iat |-> 0]

\* sign({userId, exp}, jwtSecret)
AccessToken(userId, t) ==
  [sig |-> TRUE, userId |-> userId, payload |-> 0, type |-> "none",
   exp |-> t + AccessTtl, iat |-> 0]

\* sign({userId, payload, type: "refresh", exp, iat}, jwtSecret)
RefreshToken(userId, nonce, t) ==
  [sig |-> TRUE, userId |-> userId, payload |-> nonce, type |-> "refresh",
   exp |-> t + RefreshTtl, iat |-> t]

\* A token whose signature part was altered.
Tampered(tok) == [tok EXCEPT !.sig = FALSE]

\* createHash('sha256').update(token).digest('hex'): a function of the whole
\* serialized token, taken to be collision-free.
TokenHash(tok) == <<"sha256", tok.sig, tok.userId, tok.payload, tok.type, tok.exp, tok.iat>>

\* verify(token, jwtSecret) of hono/jwt: signature, then exp and iat against the clock.
JwtVerify(tok, t) == tok.sig /\ tok.exp > t /\ tok.iat <= t

\* ------------------------------------------------------------- passwords
\* Bun.password.hash / Bun.password.verify
PasswordHash(pw) == <<"hash", pw>>
PasswordVerify(pw, h) == h = PasswordHash(pw)

\* ------------------------------------------------------------------ errors
Ok == [code |-> "ok", message |-> ""]
NoResult == [code |-> "none", message |-> ""]
InvalidRefreshTokenError(m) == [code |-> "invalid_refresh_token", message |-> m]
InvalidCredentialsError(m) == [code |-> "invalid_credentials", message |-> m]
RegistrationFailedError(m) == [code |-> "registration_failed", message |-> m]
\* A plain Error or a driver error, not an AuthError.
RawError(m) == [code |-> "raw", message |-> m]
\* UnauthorizedError / HTTPException(401): the request is answered with 401.
UnauthorizedError(m) == [code |-> "401", message |-> m]

\* -------------------------------------------------------------- processes
Idle ==
  [pc |-> "idle", op |-> "none", email |-> "", password |-> "", token |-> NoToken,
   rowId |-> 0, userId |-> 0, count |-> 0, result |-> NoResult, out |-> NoToken,
   access |-> NoToken, lateRotated |-> FALSE, lateLoggedOut |-> FALSE,
   crypto |-> <<>>, path |-> "", stack |-> ""]

Free(p) == proc[p].pc = "idle"

\* A new request takes the first free slot: requests are interchangeable.
Slot(p) == Free(p) /\ \A q \in Procs : q < p => ~Free(q)

\* Tokens a client can present: what it was given, the access token of a pair
\* in place of the refresh token, an altered token, or no JWT at all.
Presentable ==
  issued \cup {AccessToken(t.userId, t.iat) : t \in issued}
         \cup {Tampered(t) : t \in issued} \cup {Garbage}

\* Tokens for which a refreshToken call has returned a pair.
Rotated == {l.token : l \in lineage}

Begin(p, op, tok) ==
  [Idle EXCEPT !.op = op, !.token = tok,
               !.lateRotated = tok \in Rotated, !.lateLoggedOut = tok \in loggedOut]

\* The handler of p goes on to its next await.
Goto(p, rec) ==
  /\ proc' = [proc EXCEPT ![p] = rec]
  /\ last' = Idle

\* The lookup of p's handler returned a row: the handler goes on with it.
Found(p, rec) ==
  /\ proc' = [proc EXCEPT ![p] = rec]
  /\ last' = [rec EXCEPT !.pc = "found"]

\* A handler that never awaited between its store accesses returns or throws res.
Answer(rec, res) ==
  /\ proc' = proc
  /\ last' = [rec EXCEPT !.pc = "done", !.result = res]

\* The handler of p returns or throws res.
Return(p, rec, res) ==
  /\ proc' = [proc EXCEPT ![p] = Idle]
  /\ last' = [rec EXCEPT !.pc = "done", !.result = res]

\* ------------------------------------------------------------- the store
RowsByHash(h) == {r \in refreshTokens : r.tokenHash = h}

\* Mutant: the lookup without isNull(revokedAt).
RefreshLookupIgnoringRevoked(h, t) ==
  {r \in refreshTokens : r.tokenHash = h /\ r.expiresAt >= t}

\* Mutant: the lookup without the expiry condition.
RefreshLookupIgnoringExpiry(h, t) ==
  {r \in refreshTokens : r.tokenHash = h /\ r.revokedAt = NULL}

\* and(eq(tokenHash), isNull(revokedAt), gte(expiresAt, new Date()))
RefreshLookup(h, t) ==
  {r \in refreshTokens : r.tokenHash = h /\ r.revokedAt = NULL /\ r.expiresAt >= t}

\* Mutant: the update's condition without isNull(revokedAt).
LogoutMatchIgnoringRevoked(h) ==
  {r \in refreshTokens : r.tokenHash = h}

\* and(eq(tokenHash), isNull(revokedAt))
LogoutMatch(h) ==
  {r \in refreshTokens : r.tokenHash = h /\ r.revokedAt = NULL}

\* update(refreshTokens).set({revokedAt}).where(eq(id, storedToken.id))
\* Mutant: a revoke that also moves expiresAt later.
RevokeByIdExtending(id, t) ==
  {IF r.id = id THEN [r EXCEPT !.revokedAt = t, !.expiresAt = t + RefreshTtl] ELSE r :
     r \in refreshTokens}

RevokeById(id, t) ==
  {IF r.id = id THEN [r EXCEPT !.revokedAt = t] ELSE r : r \in refreshTokens}

\* update(refreshTokens).set({revokedAt}).where(and(eq(tokenHash), isNull(revokedAt)))
RevokeMatching(h, t) ==
  {IF r \in LogoutMatch(h) THEN [r EXCEPT !.revokedAt = t] ELSE r : r \in refreshTokens}

\* ---------------------------------------------------------- generateTokens
\* randomBytes(32): a fresh value, unless the environment lets it repeat.
Nonces == IF env.freshRandom THEN {nextId + 1} ELSE 1..(nextId + 1)

\* generateTokens storing the row with no lifetime (expiresAt = now).
generateTokensWithoutTtl(userId, nonce, t) ==
  LET refreshToken == RefreshToken(userId, nonce, t)
      row == [id |-> nextId + 1, userId |-> userId, tokenHash |-> TokenHash(refreshToken),
              expiresAt |-> t, createdAt |-> t, revokedAt |-> NULL]
  IN IF ~env.secret \/ RowsByHash(row.tokenHash) # {}
       THEN [result |-> RawError("error"),
             rows |-> refreshTokens, refresh |-> NoToken, access |-> NoToken, id |-> 0]
     ELSE [result |-> Ok, rows |-> refreshTokens \cup {row}, refresh |-> refreshToken,
           access |-> AccessToken(userId, t), id |-> row.id]

\* generateTokens storing the hash of the access token instead.
generateTokensHashingAccess(userId, nonce, t) ==
  LET refreshToken == RefreshToken(userId, nonce, t)
      row == [id |-> nextId + 1, userId |-> userId,
              tokenHash |-> TokenHash(AccessToken(userId, t)),
              expiresAt |-> refreshToken.exp, createdAt |-> t, revokedAt |-> NULL]
  IN IF ~env.secret \/ RowsByHash(row.tokenHash) # {}
       THEN [result |-> RawError("error"),
             rows |-> refreshTokens, refresh |-> NoToken, access |-> NoToken, id |-> 0]
     ELSE [result |-> Ok, rows |-> refreshTokens \cup {row}, refresh |-> refreshToken,
           access |-> AccessToken(userId, t), id |-> row.id]

\* Mutant: generateTokens on a table without the unique index on token_hash.
generateTokensWithoutUniqueIndex(userId, nonce, t) ==
  LET refreshToken == RefreshToken(userId, nonce, t)
      row == [id |-> nextId + 1, userId |-> userId, tokenHash |-> TokenHash(refreshToken),
              expiresAt |-> refreshToken.exp, createdAt |-> t, revokedAt |-> NULL]
  IN IF ~env.secret
       THEN [result |-> RawError("JWT_SECRET environment variable is not set"),
             rows |-> refreshTokens, refresh |-> NoToken, access |-> NoToken, id |-> 0]
     ELSE [result |-> Ok, rows |-> refreshTokens \cup {row}, refresh |-> refreshToken,
           access |-> AccessToken(userId, t), id |-> row.id]

\* Mutant: generateTokens storing every row under the first account.
generateTokensStoringFirstUser(userId, nonce, t) ==
  LET refreshToken == RefreshToken(userId, nonce, t)
      row == [id |-> nextId + 1, userId |-> 1, tokenHash |-> TokenHash(refreshToken),
              expiresAt |-> refreshToken.exp, createdAt |-> t, revokedAt |-> NULL]
  IN IF ~env.secret \/ RowsByHash(row.tokenHash) # {}
       THEN [result |-> RawError("error"),
             rows |-> refreshTokens, refresh |-> NoToken, access |-> NoToken, id |-> 0]
     ELSE [result |-> Ok, rows |-> refreshTokens \cup {row}, refresh |-> refreshToken,
           access |-> AccessToken(userId, t), id |-> row.id]

\* Mutant: generateTokens ending the user's other sessions as it issues.
generateTokensRevokingOthers(userId, nonce, t) ==
  LET refreshToken == RefreshToken(userId, nonce, t)
      row == [id |-> nextId + 1, userId |-> userId, tokenHash |-> TokenHash(refreshToken),
              expiresAt |-> refreshToken.exp, createdAt |-> t, revokedAt |-> NULL]
      others == {IF r.userId = userId /\ r.revokedAt = NULL
                   THEN [r EXCEPT !.revokedAt = t] ELSE r : r \in refreshTokens}
  IN IF ~env.secret \/ RowsByHash(row.tokenHash) # {}
       THEN [result |-> RawError("error"),
             rows |-> refreshTokens, refresh |-> NoToken, access |-> NoToken, id |-> 0]
     ELSE [result |-> Ok, rows |-> others \cup {row}, refresh |-> refreshToken,
           access |-> AccessToken(userId, t), id |-> row.id]

\* What generateTokens(userId) does at time t with random payload nonce: the
\* outcome, the table afterwards and the pair returned.
generateTokens(userId, nonce, t) ==
  LET refreshToken == RefreshToken(userId, nonce, t)
      row == [id |-> nextId + 1, userId |-> userId, tokenHash |-> TokenHash(refreshToken),
              expiresAt |-> refreshToken.exp, createdAt |-> t, revokedAt |-> NULL]
  IN IF ~env.secret
       THEN [result |-> RawError("JWT_SECRET environment variable is not set"),
             rows |-> refreshTokens, refresh |-> NoToken, access |-> NoToken, id |-> 0]
     ELSE IF RowsByHash(row.tokenHash) # {}
       THEN [result |-> RawError("UNIQUE constraint failed: refresh_tokens.token_hash"),
             rows |-> refreshTokens, refresh |-> NoToken, access |-> NoToken, id |-> 0]
     ELSE [result |-> Ok, rows |-> refreshTokens \cup {row}, refresh |-> refreshToken,
           access |-> AccessToken(userId, t), id |-> row.id]

\* No request starts that could insert beyond the model's row bound.
Issuing == {p \in Procs : proc[p].op \in {"register", "login", "refresh"} /\ ~Free(p)}
RoomToIssue == nextId + Cardinality(Issuing) < MaxRows


\* ------------------------------------------------------------------- Init
Init ==
  /\ now = 0
  /\ env = [secret |-> TRUE, freshRandom |-> TRUE]
  /\ users = {}
  /\ refreshTokens = {}
  /\ nextId = 0
  /\ proc = [p \in Procs |-> Idle]
  /\ last = Idle
  /\ issued = {}
  /\ loggedOut = {}
  /\ lineage = {}

\* The same start in any environment: JWT_SECRET set or not (the server starts
\* either way), randomBytes repeating a value or not.
InitFault ==
  /\ now = 0
  /\ env \in [secret : BOOLEAN, freshRandom : BOOLEAN]
  /\ users = {}
  /\ refreshTokens = {}
  /\ nextId = 0
  /\ proc = [p \in Procs |-> Idle]
  /\ last = Idle
  /\ issued = {}
  /\ loggedOut = {}
  /\ lineage = {}

\* The clock advances between any two steps.
Tick ==
  /\ now < MaxTime
  /\ now' = now + 1
  /\ last' = Idle
  /\ UNCHANGED <<env, users, refreshTokens, nextId, proc, issued, loggedOut, lineage>>

\* --------------------------------------------------------------- register
\* Mutant: the lookup that never finds a user.
UsersByEmailFindingNone(email) == {}

\* findFirst({where: eq(users.email, input.email)})
UsersByEmail(email) == {u \in users : u.email = email}

\* findFirst by email; throw RegistrationFailedError when found
RegisterFind(p, email, password) ==
  /\ Slot(p)
  /\ RoomToIssue
  /\ LET rec == [Begin(p, "register", NoToken) EXCEPT !.email = email, !.password = password]
     IN IF UsersByEmail(email) # {}
          THEN Return(p, rec, RegistrationFailedError(
                 "Registration failed. Please try again with different details."))
          ELSE Goto(p, [rec EXCEPT !.pc = "rg_insert"])
  /\ UNCHANGED <<now, env, users, refreshTokens, nextId, issued, loggedOut, lineage>>

\* Mutant: the insert on a users table without the unique index on email.
RegisterInsertWithoutUniqueIndex(p) ==
  /\ proc[p].pc = "rg_insert"
  /\ LET rec == proc[p]
         id == Cardinality(users) + 1
         row == [id |-> id, email |-> rec.email,
                 passwordHash |-> PasswordHash(rec.password), lastLoginAt |-> NULL]
     IN /\ users' = users \cup {row}
        /\ Goto(p, [rec EXCEPT !.pc = "rg_issue", !.userId = id])
  /\ UNCHANGED <<now, env, refreshTokens, nextId, issued, loggedOut, lineage>>

\* Bun.password.hash, then insert(users).values(...).returning()
RegisterInsert(p) ==
  /\ proc[p].pc = "rg_insert"
  /\ LET rec == proc[p]
         id == Cardinality(users) + 1
         row == [id |-> id, email |-> rec.email,
                 passwordHash |-> PasswordHash(rec.password), lastLoginAt |-> NULL]
     IN IF UsersByEmail(rec.email) # {}
          THEN /\ Return(p, rec, RawError("UNIQUE constraint failed: users.email"))
               /\ users' = users
          ELSE /\ users' = users \cup {row}
               /\ Goto(p, [rec EXCEPT !.pc = "rg_issue", !.userId = id])
  /\ UNCHANGED <<now, env, refreshTokens, nextId, issued, loggedOut, lineage>>

\* generateTokens(newUser[0].id); the catch rethrows what it caught
RegisterIssue(p) ==
  /\ proc[p].pc = "rg_issue"
  /\ \E nonce \in Nonces :
       LET rec == proc[p]
           g == generateTokens(rec.userId, nonce, now)
       IN /\ refreshTokens' = g.rows
          /\ nextId' = IF g.result = Ok THEN g.id ELSE nextId
          /\ issued' = IF g.result = Ok THEN issued \cup {g.refresh} ELSE issued
          /\ Return(p, [rec EXCEPT !.out = g.refresh, !.access = g.access], g.result)
  /\ UNCHANGED <<now, env, users, loggedOut, lineage>>

\* ------------------------------------------------------------------ login
\* Mutant: an error that tells an unknown email from a wrong password.
LoginFailureNamingCause(found) ==
  IF found = {} THEN InvalidCredentialsError("No account with this email")
  ELSE InvalidCredentialsError("Invalid email or password")

\* throw new InvalidCredentialsError("Invalid email or password")
LoginFailure(found) == InvalidCredentialsError("Invalid email or password")

\* findFirst by email; the hash to verify against (the user's, or one computed
\* from dummyPassword); Bun.password.verify; throw InvalidCredentialsError.
\* crypto records the password operations performed, in order.
LoginFind(p, email, password) ==
  /\ Slot(p)
  /\ RoomToIssue
  /\ LET found == UsersByEmail(email)
         user == CHOOSE u \in found : TRUE
         passwordToVerify == IF found # {} THEN user.passwordHash
                             ELSE PasswordHash(dummyPassword)
         isValidPassword == PasswordVerify(password, passwordToVerify)
         rec == [Begin(p, "login", NoToken) EXCEPT
                   !.email = email, !.password = password,
                   !.crypto = IF found # {} THEN <<"verify">> ELSE <<"hash", "verify">>]
     IN IF found = {} \/ ~isValidPassword
          THEN Return(p, rec, LoginFailure(found))
          ELSE Goto(p, [rec EXCEPT !.pc = "lg_update", !.userId = user.id])
  /\ UNCHANGED <<now, env, users, refreshTokens, nextId, issued, loggedOut, lineage>>

\* update(users).set({lastLoginAt: new Date()}).where(eq(id, user.id))
LoginUpdate(p) ==
  /\ proc[p].pc = "lg_update"
  /\ users' = {IF u.id = proc[p].userId THEN [u EXCEPT !.lastLoginAt = now] ELSE u : u \in users}
  /\ Goto(p, [proc[p] EXCEPT !.pc = "lg_issue"])
  /\ UNCHANGED <<now, env, refreshTokens, nextId, issued, loggedOut, lineage>>

\* generateTokens(user.id); login has no catch
LoginIssue(p) ==
  /\ proc[p].pc = "lg_issue"
  /\ \E nonce \in Nonces :
       LET rec == proc[p]
           g == generateTokens(rec.userId, nonce, now)
       IN /\ refreshTokens' = g.rows
          /\ nextId' = IF g.result = Ok THEN g.id ELSE nextId
          /\ issued' = IF g.result = Ok THEN issued \cup {g.refresh} ELSE issued
          /\ Return(p, [rec EXCEPT !.out = g.refresh, !.access = g.access], g.result)
  /\ UNCHANGED <<now, env, users, loggedOut, lineage>>

\* ----------------------------------------------------------- refreshToken
\* The JWT_SECRET check (outside the try), verify, the type check
RefreshVerify(p, tok) ==
  /\ Slot(p)
  /\ RoomToIssue
  /\ LET rec == Begin(p, "refresh", tok)
     IN IF ~env.secret
          THEN Return(p, rec, RawError("JWT_SECRET environment variable is not set"))
        ELSE IF ~JwtVerify(tok, now)
          THEN Return(p, rec, InvalidRefreshTokenError("Refresh token is invalid or expired"))
        ELSE IF tok.type # "refresh"
          THEN Return(p, rec, InvalidRefreshTokenError("Invalid token type"))
        ELSE Goto(p, [rec EXCEPT !.pc = "rf_find"])
  /\ UNCHANGED <<now, env, users, refreshTokens, nextId, issued, loggedOut, lineage>>

\* findFirst where tokenHash matches, revokedAt is null, expiresAt >= now
RefreshFind(p) ==
  /\ proc[p].pc = "rf_find"
  /\ LET rec == proc[p]
         found == RefreshLookup(TokenHash(rec.token), now)
     IN IF found = {}
          THEN Return(p, rec, InvalidRefreshTokenError("Refresh token is invalid or expired"))
          ELSE LET storedToken == CHOOSE r \in found : TRUE
               IN Found(p, [rec EXCEPT !.pc = "rf_revoke", !.rowId = storedToken.id,
                                       !.userId = storedToken.userId])
  /\ UNCHANGED <<now, env, users, refreshTokens, nextId, issued, loggedOut, lineage>>

\* update set revokedAt = now where id = storedToken.id
RefreshRevoke(p) ==
  /\ proc[p].pc = "rf_revoke"
  /\ refreshTokens' = RevokeById(proc[p].rowId, now)
  /\ Goto(p, [proc[p] EXCEPT !.pc = "rf_issue",
                             !.count = Cardinality({r \in refreshTokens : r.id = proc[p].rowId})])
  /\ UNCHANGED <<now, env, users, nextId, issued, loggedOut, lineage>>

\* generateTokens(storedToken.userId); the catch folds any other error into
\* InvalidRefreshTokenError
RefreshIssue(p) ==
  /\ proc[p].pc = "rf_issue"
  /\ \E nonce \in Nonces :
       LET rec == proc[p]
           g == generateTokens(rec.userId, nonce, now)
           ok == g.result = Ok
       IN /\ refreshTokens' = g.rows
          /\ nextId' = IF ok THEN g.id ELSE nextId
          /\ issued' = IF ok THEN issued \cup {g.refresh} ELSE issued
          /\ lineage' = IF ok
               THEN lineage \cup {[token |-> rec.token, from |-> rec.rowId,
                                    revoked |-> rec.count, to |-> g.id, out |-> g.refresh]}
               ELSE lineage
          /\ Return(p, [rec EXCEPT !.out = g.refresh, !.access = g.access],
                    IF ok THEN Ok
                    ELSE InvalidRefreshTokenError("Refresh token is invalid or expired"))
  /\ UNCHANGED <<now, env, users, loggedOut>>

\* ----------------------------------------------------------------- logout
\* One UPDATE ... RETURNING; zero rows throw InvalidRefreshTokenError.  The
\* handler makes one store access, so the whole call is one step.
Logout(tok) ==
  /\ LET rec == Begin(0, "logout", tok)
         h == TokenHash(tok)
         hit == LogoutMatch(h) # {}
     IN /\ refreshTokens' = RevokeMatching(h, now)
        /\ loggedOut' = IF hit THEN loggedOut \cup {tok} ELSE loggedOut
        /\ Answer(rec, IF hit THEN Ok
                   ELSE InvalidRefreshTokenError("Token is invalid or already expired"))
  /\ UNCHANGED <<now, env, users, nextId, issued, lineage>>

\* ---------------------------------------------------- TokenCleanupService
\* Mutant: a cleanup that deletes revoked rows only.
ExpiredRowsRevokedOnly(t) == {r \in refreshTokens : r.revokedAt # NULL /\ r.expiresAt < t}

\* Mutant: lte(expiresAt, now).
ExpiredRowsInclusive(t) == {r \in refreshTokens : r.expiresAt <= t}

\* lt(expiresAt, now)
ExpiredRows(t) == {r \in refreshTokens : r.expiresAt < t}

\* and(isNotNull(revokedAt), lt(expiresAt, now))
RevokedExpiredRows(t) == {r \in refreshTokens : r.revokedAt # NULL /\ r.expiresAt < t}

cleanupExpiredTokens ==
  /\ refreshTokens' = refreshTokens \ ExpiredRows(now)
  /\ Answer([Begin(0, "cleanupExpiredTokens", NoToken) EXCEPT
               !.count = Cardinality(ExpiredRows(now))], Ok)
  /\ UNCHANGED <<now, env, users, nextId, issued, loggedOut, lineage>>

cleanupRevokedTokens ==
  /\ refreshTokens' = refreshTokens \ RevokedExpiredRows(now)
  /\ Answer([Begin(0, "cleanupRevokedTokens", NoToken) EXCEPT
               !.count = Cardinality(RevokedExpiredRows(now))], Ok)
  /\ UNCHANGED <<now, env, users, nextId, issued, loggedOut, lineage>>

\* performDailyCleanup: the first pass ...
DailyExpired(p) ==
  /\ Slot(p)
  /\ refreshTokens' = refreshTokens \ ExpiredRows(now)
  /\ Goto(p, [Begin(p, "performDailyCleanup", NoToken) EXCEPT
                !.pc = "cl_revoked", !.count = Cardinality(ExpiredRows(now))])
  /\ UNCHANGED <<now, env, users, nextId, issued, loggedOut, lineage>>

\* ... and the second pass, the sum returned
DailyRevoked(p) ==
  /\ proc[p].pc = "cl_revoked"
  /\ refreshTokens' = refreshTokens \ RevokedExpiredRows(now)
  /\ Return(p, [proc[p] EXCEPT !.count = @ + Cardinality(RevokedExpiredRows(now))], Ok)
  /\ UNCHANGED <<now, env, users, nextId, issued, loggedOut, lineage>>

\* ------------------------------------------------ request authentication
\* The procedures of the router, by path.
PublicProcedures == {"auth.login", "auth.register", "tests.list", "tests.create"}
ProtectedProcedures == {"rounds.create", "rounds.list", "rounds.get", "user.profile"}

\* Mutant: a filter that also leaves user.profile unwrapped.
skipAuthFilterSkippingProfile(procedurePath) ==
  procedurePath \notin {"ping", "auth.login", "auth.register", "tests.list",
                        "tests.create", "user.profile"}

\* skipAuthFilter: TRUE when the procedure is wrapped by the auth middleware.
skipAuthFilter(procedurePath) ==
  procedurePath \notin {"ping", "auth.login", "auth.register", "tests.list", "tests.create"}

\* createHonoApp's JWT parsing: the context handed to the RPC handler.  A
\* request without a Bearer header carries NoToken.
RpcContext(action, cred, t) ==
  IF action \in {"auth.login", "auth.register"} THEN [user |-> 0, invalidToken |-> FALSE]
  ELSE IF cred = NoToken \/ ~env.secret THEN [user |-> 0, invalidToken |-> FALSE]
  ELSE IF JwtVerify(cred, t) THEN [user |-> cred.userId, invalidToken |-> FALSE]
  ELSE [user |-> 0, invalidToken |-> TRUE]

\* createAuthMiddleware's wrapper: the handler is called (Ok) or 401 thrown.
createAuthMiddleware(cleanPath, context) ==
  IF cleanPath \in {"auth.login", "auth.register"} THEN Ok
  ELSE IF context.invalidToken THEN UnauthorizedError("Invalid token")
  ELSE IF context.user = 0 THEN UnauthorizedError("Authentication required")
  ELSE Ok

\* Mutant: a bearer-token check that also requires a live session row.
authMiddlewareCheckingSession(cred, t) ==
  IF cred = NoToken \/ ~env.secret THEN UnauthorizedError("Authentication required")
  ELSE IF JwtVerify(cred, t) /\ cred.userId # 0
            /\ \E r \in refreshTokens : r.userId = cred.userId /\ r.revokedAt = NULL
    THEN Ok
  ELSE UnauthorizedError("Invalid or expired token")

\* authMiddleware of the Hono routes: next() is called (Ok) or HTTPException(401).
authMiddleware(cred, t) ==
  IF cred = NoToken \/ ~env.secret THEN UnauthorizedError("Authentication required")
  ELSE IF JwtVerify(cred, t) /\ cred.userId # 0 THEN Ok
  ELSE UnauthorizedError("Invalid or expired token")

\* What a request for a procedure gets from each of the two stacks: the oRPC
\* router (wrapProcedures with skipAuthFilter) and the Hono routes.
Admission(stack, path, cred, t) ==
  IF stack = "orpc"
    THEN IF skipAuthFilter(path) THEN createAuthMiddleware(path, RpcContext(path, cred, t))
         ELSE Ok
    ELSE IF path \in ProtectedProcedures THEN authMiddleware(cred, t) ELSE Ok

\* A request for a procedure with a bearer credential: answered in one step
\* (the middlewares read no table).
Request(stack, path, cred) ==
  /\ Answer([Begin(0, "request", cred) EXCEPT !.stack = stack, !.path = path],
            Admission(stack, path, cred, now))
  /\ UNCHANGED <<now, env, users, refreshTokens, nextId, issued, loggedOut, lineage>>

\* ------------------------------------------------------------------- Next
\* The cleanup job when it has rows to delete.  (A run that finds none changes
\* no row and returns 0.)
CleanupRun == ExpiredRows(now) # {} /\ cleanupExpiredTokens

\* The account the requests are about.
Account == "a@x.com"

\* Rotation: one account, its refresh tokens presented to refresh and logout
\* by concurrent requests, the cleanup job and the clock.
Next ==
  \/ Tick
  \/ \E p \in Procs : RegisterFind(p, Account, StrongPassword)
  \/ \E p \in Procs : RegisterInsert(p)
  \/ \E p \in Procs : RegisterIssue(p)
  \/ \E p \in Procs, tok \in issued : RefreshVerify(p, tok)
  \/ \E p \in Procs : RefreshFind(p)
  \/ \E p \in Procs : RefreshRevoke(p)
  \/ \E p \in Procs : RefreshIssue(p)
  \/ \E tok \in issued : Logout(tok)
  \/ CleanupRun

Spec == Init /\ [][Next]_vars

\* The same with login as a second source of token pairs.
NextLogin ==
  \/ Tick
  \/ \E p \in Procs : RegisterFind(p, Account, StrongPassword)
  \/ \E p \in Procs : RegisterInsert(p)
  \/ \E p \in Procs : RegisterIssue(p)
  \/ \E p \in Procs, password \in Passwords : LoginFind(p, Account, password)
  \/ \E p \in Procs : LoginUpdate(p)
  \/ \E p \in Procs : LoginIssue(p)
  \/ \E p \in Procs, tok \in issued : RefreshVerify(p, tok)
  \/ \E p \in Procs : RefreshFind(p)
  \/ \E p \in Procs : RefreshRevoke(p)
  \/ \E p \in Procs : RefreshIssue(p)
  \/ \E tok \in issued : Logout(tok)
  \/ CleanupRun

SpecLogin == Init /\ [][NextLogin]_vars

\* The same as Next with clients that also present tokens they were not given.
NextForged ==
  \/ Tick
  \/ \E p \in Procs : RegisterFind(p, Account, StrongPassword)
  \/ \E p \in Procs : RegisterInsert(p)
  \/ \E p \in Procs : RegisterIssue(p)
  \/ \E p \in Procs, tok \in Presentable : RefreshVerify(p, tok)
  \/ \E p \in Procs : RefreshFind(p)
  \/ \E p \in Procs : RefreshRevoke(p)
  \/ \E p \in Procs : RefreshIssue(p)
  \/ \E tok \in Presentable : Logout(tok)
  \/ CleanupRun

SpecForged == Init /\ [][NextForged]_vars

\* The cleanup service, all three entry points, run at any moment among
\* registrations and rotations (which revoke the rows they consume).
NextCleanup ==
  \/ Tick
  \/ \E p \in Procs : RegisterFind(p, Account, StrongPassword)
  \/ \E p \in Procs : RegisterInsert(p)
  \/ \E p \in Procs : RegisterIssue(p)
  \/ \E p \in Procs, tok \in issued : RefreshVerify(p, tok)
  \/ \E p \in Procs : RefreshFind(p)
  \/ \E p \in Procs : RefreshRevoke(p)
  \/ \E p \in Procs : RefreshIssue(p)
  \/ cleanupExpiredTokens
  \/ cleanupRevokedTokens
  \/ \E p \in Procs : DailyExpired(p)
  \/ \E p \in Procs : DailyRevoked(p)

SpecCleanup == Init /\ [][NextCleanup]_vars

\* Rows issued early enough to pass their expiresAt before the clock bound.
CanExpire == now + RefreshTtl < MaxTime

\* Rotation with the clock advancing and the cleanup job run again and again.
NextLive ==
  \/ Tick
  \/ \E p \in Procs : RegisterFind(p, Account, StrongPassword)
  \/ \E p \in Procs : RegisterInsert(p)
  \/ \E p \in Procs : CanExpire /\ RegisterIssue(p)
  \/ \E p \in Procs, tok \in issued : RefreshVerify(p, tok)
  \/ \E p \in Procs : RefreshFind(p)
  \/ \E p \in Procs : RefreshRevoke(p)
  \/ \E p \in Procs : CanExpire /\ RefreshIssue(p)
  \/ CleanupRun

SpecLive == Init /\ [][NextLive]_vars /\ WF_vars(Tick) /\ WF_vars(CleanupRun)

\* Bearer credentials: what clients were given and what they can make of it,
\* or no Authorization header.
Bearers == Presentable \cup {NoToken}

\* The gate: requests for every procedure with every credential, on both stacks.
NextGate ==
  \/ Tick
  \/ \E p \in Procs : RegisterFind(p, Account, StrongPassword)
  \/ \E p \in Procs : RegisterInsert(p)
  \/ \E p \in Procs : RegisterIssue(p)
  \/ \E stack \in {"orpc", "hono"}, path \in PublicProcedures \cup ProtectedProcedures,
        cred \in Bearers : Request(stack, path, cred)

SpecGate == Init /\ [][NextGate]_vars

\* The access tokens of the pairs handed out.
AccessTokens == {AccessToken(t.userId, t.iat) : t \in issued}

\* No call is in flight.
Quiet == \A q \in Procs : Free(q)

\* Sessions: concurrent rotations, the cleanup job and logouts sent between
\* calls, with requests that carry the access tokens of the pairs to a
\* protected procedure.
NextSessions ==
  \/ Tick
  \/ \E p \in Procs : RegisterFind(p, Account, StrongPassword)
  \/ \E p \in Procs : RegisterInsert(p)
  \/ \E p \in Procs : RegisterIssue(p)
  \/ \E p \in Procs, tok \in issued : RefreshVerify(p, tok)
  \/ \E p \in Procs : RefreshFind(p)
  \/ \E p \in Procs : RefreshRevoke(p)
  \/ \E p \in Procs : RefreshIssue(p)
  \/ \E tok \in issued : Quiet /\ Logout(tok)
  \/ CleanupRun
  \/ \E stack \in {"orpc", "hono"}, cred \in AccessTokens :
       Request(stack, "rounds.list", cred)

SpecSessions == Init /\ [][NextSessions]_vars

\* Ownership: two accounts, each registering, logging in and rotating.
NextOwners ==
  \/ Tick
  \/ \E p \in Procs, email \in Emails : RegisterFind(p, email, StrongPassword)
  \/ \E p \in Procs : RegisterInsert(p)
  \/ \E p \in Procs : RegisterIssue(p)
  \/ \E p \in Procs, email \in Emails : LoginFind(p, email, StrongPassword)
  \/ \E p \in Procs : LoginUpdate(p)
  \/ \E p \in Procs : LoginIssue(p)
  \/ \E p \in Procs, tok \in issued : RefreshVerify(p, tok)
  \/ \E p \in Procs : RefreshFind(p)
  \/ \E p \in Procs : RefreshRevoke(p)
  \/ \E p \in Procs : RefreshIssue(p)

SpecOwners == Init /\ [][NextOwners]_vars

\* All four operations in every environment.
SpecFault == InitFault /\ [][NextLogin]_vars

\* Accounts: registrations and logins for two emails, with right, wrong and
\* dummy passwords.
NextUsers ==
  \/ Tick
  \/ \E p \in Procs, email \in Emails : RegisterFind(p, email, StrongPassword)
  \/ \E p \in Procs : RegisterInsert(p)
  \/ \E p \in Procs : RegisterIssue(p)
  \/ \E p \in Procs, email \in Emails, password \in Passwords \cup {dummyPassword} :
       LoginFind(p, email, password)
  \/ \E p \in Procs : LoginUpdate(p)
  \/ \E p \in Procs : LoginIssue(p)

SpecUsers == Init /\ [][NextUsers]_vars

\* ================================================================= claims
\* The spec's predicate: a row is active iff revokedAt IS NULL AND expiresAt > now.
Active(r, t) == r.revokedAt = NULL /\ r.expiresAt > t

Returned(op) == last.pc = "done" /\ last.op = op
Invalid == "invalid_refresh_token"

\* C1: of the refreshToken calls presenting one refresh token, whatever the
\* interleaving of their store accesses, at most one returns a successor pair.
C1_AtMostOneRefreshWins ==
  \A tok \in issued : Cardinality({l \in lineage : l.token = tok}) <= 1

\* C2: every refreshToken call that succeeded has set revokedAt on exactly the
\* one row matching the presented token, and no row has two successor rows.
C2_RotationConsumesOneRow ==
  /\ \A l \in lineage : l.revoked = 1
  /\ \A l \in lineage : \A r \in RowsByHash(TokenHash(l.token)) : r.revokedAt # NULL
  /\ \A l1, l2 \in lineage : l1.from = l2.from => l1.to = l2.to

\* C3: for no token do both a refreshToken call and a logout call succeed; a
\* refresh never returns a pair for a token a logout has revoked.
C3_RefreshLogoutExclusive == Rotated \cap loggedOut = {}

\* C4: a refreshToken(A) call that begins after some refreshToken(A) has
\* returned a successor pair fails with invalid_refresh_token.
C4_RotationInvalidatesPredecessor ==
  (Returned("refresh") /\ last.lateRotated) => last.result.code = Invalid

\* C4 witness: a refresh of an already rotated token has returned.
C4_Witness == Returned("refresh") /\ last.lateRotated /\ last.token \in issued

Minted == {l.out : l \in lineage}

\* C6: the refresh token a successful refreshToken returns differs from the one
\* presented and its row is active; a later refreshToken or logout presenting
\* it fails only if its row is no longer active (revoked, expired or deleted).
C6_SuccessorIsFreshAndActive ==
  /\ (Returned("refresh") /\ last.result = Ok) =>
       /\ last.out # last.token
       /\ \E r \in refreshTokens : r.tokenHash = TokenHash(last.out) /\ Active(r, now)
  /\ ((Returned("refresh") \/ Returned("logout")) /\ last.token \in Minted
        /\ last.result # Ok) =>
       ~ \E r \in refreshTokens : r.tokenHash = TokenHash(last.token) /\ Active(r, now)

\* C6 witness: a refreshToken presenting a token minted by an earlier
\* refreshToken has returned a pair.
C6_Witness == Returned("refresh") /\ last.result = Ok /\ last.token \in Minted

\* A register, login or refreshToken call returns success in this step.
IssuedNow ==
  last'.pc = "done" /\ last'.op \in {"register", "login", "refresh"} /\ last'.result = Ok

\* The rows this step inserted.
Inserted == {r \in refreshTokens' : \A q \in refreshTokens : q.id # r.id}

\* C7: a register, login or refreshToken call that returns success has, in its
\* issuing step, inserted exactly one row, active and with the hash of the
\* refresh token it returns; no other step of any call inserts a row.
C7_OneRowPerIssuance ==
  [][/\ IssuedNow =>
          \E r \in refreshTokens' :
            /\ Inserted = {r}
            /\ r.tokenHash = TokenHash(last'.out)
            /\ Active(r, now')
     /\ Inserted # {} => IssuedNow]_vars

\* C7 witness: a login has returned a pair.
C7_Witness == Returned("login") /\ last.result = Ok

\* The row a refreshToken lookup has just returned.
FoundRows == {r \in refreshTokens : r.id = last.rowId /\ r.tokenHash = TokenHash(last.token)}
GenericRefreshError == InvalidRefreshTokenError("Refresh token is invalid or expired")

\* C8: (as amended) the lookup of refreshToken passes only a row that matches
\* the presented token, has revokedAt null and expiresAt >= now: a row expiring
\* exactly now is accepted, a row with expiresAt before now is rejected.
C8_LookupAcceptsUnexpired ==
  last.pc = "found" =>
    \E r \in FoundRows : r.revokedAt = NULL /\ r.expiresAt >= now

\* C8 witness: the lookup has just passed a row whose expiresAt is now.
C8_Witness ==
  last.pc = "found" /\ \E r \in FoundRows : r.revokedAt = NULL /\ r.expiresAt = now

\* C8 as stated: the lookup of refreshToken passes only a row that is active,
\* revokedAt null and expiresAt > now.
C8_LookupAcceptsOnlyActive ==
  last.pc = "found" => \E r \in FoundRows : Active(r, now)

\* C9: logout succeeds only when the row matching the presented token is
\* unrevoked and unexpired (expiresAt not before now); otherwise it fails with
\* InvalidRefreshToken and leaves the store unchanged.
C9_LogoutOnlyUnexpired ==
  [][(last'.pc = "done" /\ last'.op = "logout") =>
       IF \E r \in RowsByHash(TokenHash(last'.token)) :
            r.revokedAt = NULL /\ r.expiresAt >= now
         THEN last'.result = Ok
         ELSE last'.result.code = Invalid /\ refreshTokens' = refreshTokens]_vars

\* C10: every refreshToken call that fails throws the one InvalidRefreshToken
\* error, whatever the reason, and neither revokes nor creates a row.
C10_OneRefreshError ==
  [][(last'.pc = "done" /\ last'.op = "refresh" /\ last'.result # Ok) =>
       last'.result = GenericRefreshError /\ refreshTokens' = refreshTokens]_vars

\* The email belongs to a user.
Registered(email) == \E u \in users : u.email = email

\* C11: every failing login, for an unknown email with any password and for a
\* known email with a wrong password alike, returns the same InvalidCredentials
\* error (code and message) and changes neither table.
C11_LoginFailuresIndistinguishable ==
  [][(last'.pc = "done" /\ last'.op = "login" /\ last'.result # Ok) =>
       /\ last'.result = InvalidCredentialsError("Invalid email or password")
       /\ users' = users
       /\ refreshTokens' = refreshTokens]_vars

\* C11 witness: a login for an email no user has was refused, while a user
\* with another email exists.
C11_Witness ==
  Returned("login") /\ last.result # Ok /\ ~Registered(last.email) /\ users # {}

\* C12: every login performs the same sequence of password operations, one
\* verify, whether or not a user matches the email.
C12_SameHashingOps == Returned("login") => last.crypto = <<"verify">>

C14_NoRawErrors ==
  (last.pc = "done" /\ last.op \in {"register", "login", "refresh", "logout"})
    => last.result.code # "raw"

\* A register, login or refreshToken call returns from generateTokens in this step.
IssueStep ==
  \E p \in Procs : proc[p].pc \in {"rg_issue", "lg_issue", "rf_issue"} /\ proc'[p].pc = "idle"

\* C20: the tokenHash values of the rows stay pairwise distinct; an issuance
\* returns success only with a token whose hash no row had, and an issuance
\* that fails (a collision among the reasons) inserts nothing.
C20_TokenHashUnique ==
  [][/\ \A r1, r2 \in refreshTokens' : r1.tokenHash = r2.tokenHash => r1 = r2
     /\ IssueStep =>
          IF last'.result = Ok
            THEN RowsByHash(TokenHash(last'.out)) = {} /\ Cardinality(Inserted) = 1
            ELSE Inserted = {} /\ refreshTokens' = refreshTokens]_vars

\* C20 witness: a login was refused by the unique index on token_hash.
C20_Witness ==
  Returned("login")
    /\ last.result = RawError("UNIQUE constraint failed: refresh_tokens.token_hash")

\* The rows this step deleted.
Removed == {r \in refreshTokens : \A q \in refreshTokens' : q.id # r.id}

\* C15: every row removed has expiresAt < now at the moment of its deletion
\* and is a row that neither refreshToken's lookup nor logout's update would
\* still accept.
C15_CleanupSparesAcceptedRows ==
  [][\A r \in Removed :
       /\ r.expiresAt < now
       /\ r \notin {q \in refreshTokens : q.revokedAt = NULL /\ q.expiresAt >= now}
       /\ r \notin {q \in refreshTokens : q.revokedAt = NULL}]_vars

\* C16: no step deletes a row that a refreshToken call in flight has found
\* and not yet revoked.
C16_CleanupNeverUnderRefresh ==
  [][\A r \in Removed :
       ~ \E p \in Procs : proc[p].pc = "rf_revoke" /\ proc[p].rowId = r.id]_vars

\* The rows with expiresAt < now, revoked or not.
PastExpiry == {r \in refreshTokens : r.expiresAt < now}

\* C17: cleanupExpiredTokens, and the first pass of performDailyCleanup, remove
\* exactly the rows with expiresAt < now, so that none remains, and count what
\* they removed; cleanupRevokedTokens and the second pass remove exactly the
\* revoked ones among them; performDailyCleanup returns the sum of its passes.
C17_CleanupExactAndCounted ==
  [][/\ (last'.pc = "done" /\ last'.op = "cleanupExpiredTokens") =>
          /\ Removed = PastExpiry
          /\ refreshTokens' = refreshTokens \ Removed
          /\ \A r \in refreshTokens' : r.expiresAt >= now
          /\ last'.count = Cardinality(Removed)
     /\ (last'.pc = "done" /\ last'.op = "cleanupRevokedTokens") =>
          /\ Removed = {r \in PastExpiry : r.revokedAt # NULL}
          /\ refreshTokens' = refreshTokens \ Removed
          /\ last'.count = Cardinality(Removed)
     /\ \A p \in Procs :
          /\ (proc[p].pc = "idle" /\ proc'[p].pc = "cl_revoked") =>
               /\ Removed = PastExpiry
               /\ refreshTokens' = refreshTokens \ Removed
               /\ \A r \in refreshTokens' : r.expiresAt >= now
               /\ proc'[p].count = Cardinality(Removed)
          /\ (proc[p].pc = "cl_revoked" /\ proc'[p].pc = "idle") =>
               /\ Removed = {r \in PastExpiry : r.revokedAt # NULL}
               /\ refreshTokens' = refreshTokens \ Removed
               /\ last'.op = "performDailyCleanup"
               /\ last'.count = proc[p].count + Cardinality(Removed)]_vars

\* C17 witness: performDailyCleanup has returned a count of rows removed.
C17_Witness == Returned("performDailyCleanup") /\ last.count > 0

\* C19: no step resets revokedAt of a row to null, changes its expiresAt or its
\* tokenHash, or makes a row that is not active active; no row is inserted
\* with the tokenHash of a token issued before (deleted rows included).
C19_LifecycleOneWay ==
  [][/\ \A r \in refreshTokens, q \in refreshTokens' :
          q.id = r.id =>
            /\ q.expiresAt = r.expiresAt
            /\ q.tokenHash = r.tokenHash
            /\ r.revokedAt # NULL => q.revokedAt # NULL
            /\ ~Active(r, now) => ~Active(q, now')
     /\ \A q \in Inserted : q.tokenHash \notin {TokenHash(t) : t \in issued}]_vars

\* C19 witness: a rotation has returned a pair after an earlier row was
\* deleted, with a revoked row in the table.
C19_Witness ==
  /\ Returned("refresh") /\ last.result = Ok
  /\ nextId > Cardinality(refreshTokens)
  /\ \E r \in refreshTokens : r.revokedAt # NULL

\* C18: with the clock advancing and the cleanup job run again and again,
\* every row, revoked or not, is eventually deleted.
C18_EveryRowEventuallyDeleted ==
  \A i \in 1..MaxRows :
    (\E r \in refreshTokens : r.id = i) ~> ~(\E r \in refreshTokens : r.id = i)

\* C18 witness: the cleanup job has deleted the last of the rows issued.
C18_Witness ==
  Returned("cleanupExpiredTokens") /\ last.count > 0 /\ nextId > 0 /\ refreshTokens = {}

\* C21: a request to a protected procedure with the access token of a pair is
\* admitted exactly when the token's exp lies ahead, whatever has happened to
\* the rows of the refresh tokens (revoked, rotated, deleted).
C21_AccessTokenStateless ==
  (Returned("request") /\ last.token \in AccessTokens /\ last.path \in ProtectedProcedures)
    => (last.result = Ok <=> last.token.exp > now)

\* C21 witness: an access token was admitted when every refresh-token row of
\* its user was revoked.
C21_Witness ==
  /\ Returned("request") /\ last.token \in AccessTokens /\ last.result = Ok
  /\ \E r \in refreshTokens : r.userId = last.token.userId
  /\ \A r \in refreshTokens : r.userId = last.token.userId => r.revokedAt # NULL

C30_RefreshTokenNotABearer ==
  (Returned("request") /\ last.path \in ProtectedProcedures /\ last.token.type = "refresh")
    => last.result.code = "401"

\* A login call goes from its lastLoginAt update on to issuing.
LoginUpdated(p) == proc[p].pc = "lg_update" /\ proc'[p].pc = "lg_issue"

\* C23: login's update sets lastLoginAt = now on the row of the authenticated
\* user and changes nothing else; a login that returns success goes on to
\* insert one row; a login that fails has changed no User row and no
\* RefreshToken row.
C23_LoginFrame ==
  [][/\ \A p \in Procs : LoginUpdated(p) =>
          /\ users' = {IF u.id = proc[p].userId THEN [u EXCEPT !.lastLoginAt = now] ELSE u :
                         u \in users}
          /\ \E u \in users : u.id = proc[p].userId /\ u.email = proc[p].email
          /\ refreshTokens' = refreshTokens
     /\ (last'.pc = "done" /\ last'.op = "login" /\ last'.result = Ok) =>
          Cardinality(Inserted) = 1 /\ users' = users
     /\ (last'.pc = "done" /\ last'.op = "login" /\ last'.result # Ok) =>
          /\ users' = users
          /\ refreshTokens' = refreshTokens
          /\ ~ \E p \in Procs : proc[p].pc = "lg_issue" /\ proc'[p].pc = "idle"]_vars

\* The call of p returns a token pair in this step.
Granted(p) ==
  /\ proc[p].pc \in {"rg_issue", "lg_issue", "rf_issue"}
  /\ proc'[p].pc = "idle"
  /\ last'.result = Ok

\* C24: a pair returned by register or login carries, in both tokens and in
\* its stored row, the id of the user with the call's email; a pair returned by
\* refreshToken carries the userId of the row it consumed and of the token
\* presented.  So register and a later login with the same credentials name
\* the same user.
C24_TokenOwnership ==
  [][\A p \in Procs : Granted(p) =>
       /\ proc[p].op \in {"register", "login"} =>
            \E u \in users :
              /\ u.email = proc[p].email
              /\ last'.out.userId = u.id /\ last'.access.userId = u.id
              /\ \A r \in Inserted : r.userId = u.id /\ r.tokenHash = TokenHash(last'.out)
       /\ proc[p].op = "refresh" =>
            \E c \in refreshTokens :
              /\ c.id = proc[p].rowId /\ c.tokenHash = TokenHash(proc[p].token)
              /\ last'.out.userId = c.userId /\ last'.access.userId = c.userId
              /\ proc[p].token.userId = c.userId
              /\ \A r \in Inserted : r.userId = c.userId /\ r.tokenHash = TokenHash(last'.out)
       /\ Cardinality(Inserted) = 1]_vars

\* A rotation for the second account while the first account holds a row.
C24_Witness ==
  /\ Returned("refresh") /\ last.result = Ok /\ last.out.userId = 2
  /\ \E r \in refreshTokens : r.tokenHash = TokenHash(last.out) /\ r.userId = 2
  /\ \E r \in refreshTokens : r.userId = 1

\* C25: the step in which a call returns from generateTokens changes no User
\* row, changes and removes no RefreshToken row that existed, and adds one row
\* when it succeeds and none when it fails.
C25_IssueFrame ==
  [][IssueStep =>
       /\ users' = users
       /\ refreshTokens \subseteq refreshTokens'
       /\ refreshTokens' = refreshTokens \cup Inserted
       /\ Cardinality(Inserted) = (IF last'.result = Ok THEN 1 ELSE 0)]_vars

\* A pair was issued to a user who holds another unrevoked row.
C25_Witness ==
  /\ last.pc = "done" /\ last.op \in {"login", "refresh"} /\ last.result = Ok
  /\ \E r \in refreshTokens :
       /\ r.userId = last.out.userId /\ r.tokenHash # TokenHash(last.out)
       /\ r.revokedAt = NULL

\* C26: a refreshToken call that fails has changed no RefreshToken row: it
\* fails before its revoke step, never after it.
C26_FailedRefreshChangesNothing ==
  [][(last'.pc = "done" /\ last'.op = "refresh" /\ last'.result # Ok) =>
       /\ refreshTokens' = refreshTokens
       /\ ~ \E p \in Procs : proc[p].pc = "rf_issue" /\ proc'[p].pc = "idle"]_vars

\* C27: a register call that fails has inserted no User row: it fails before
\* its insert, never after it.
C27_FailedRegisterChangesNothing ==
  [][(last'.pc = "done" /\ last'.op = "register" /\ last'.result # Ok) =>
       /\ users' = users
       /\ ~ \E p \in Procs : proc[p].pc = "rg_issue" /\ proc'[p].pc = "idle"]_vars

\* The emails of the register calls that returned a pair in this step.
RegisteredNow ==
  {proc[p].email : p \in {q \in Procs : proc[q].pc = "rg_issue" /\ Granted(q)}}

\* C28: no two User rows share an email; a register call inserts its row only
\* while no row has its email, one that lost the race to the insert fails
\* with no row added, and a register returns a pair only for the one row of
\* its email, which it inserted itself.
C28_EmailUnique ==
  [][/\ \A u1, u2 \in users' : u1.email = u2.email => u1 = u2
     /\ \A p \in Procs : (proc[p].pc = "rg_insert" /\ proc'[p].pc # "rg_insert") =>
          IF Registered(proc[p].email)
            THEN users' = users /\ proc'[p].pc = "idle" /\ last'.result # Ok
            ELSE \E u \in users' : users' = users \cup {u} /\ u.email = proc[p].email
                                     /\ u.id = proc'[p].userId
     /\ \A e \in RegisteredNow :
          \A p \in Procs : (proc[p].pc = "rg_issue" /\ proc[p].email = e) =>
            \A u \in users : u.email = e => u.id = proc[p].userId]_vars

\* One of two concurrent registers of one email was refused by the unique index.
C28_Witness ==
  /\ Returned("register") /\ last.result = RawError("UNIQUE constraint failed: users.email")
  /\ Cardinality({u \in users : u.email = last.email}) = 1

\* C29: a revokedAt that has been set keeps its value for as long as the row
\* exists.
C29_RevokedAtKept ==
  [][\A r \in refreshTokens, q \in refreshTokens' :
       (q.id = r.id /\ r.revokedAt # NULL) => q.revokedAt = r.revokedAt]_vars

====
